---- MODULE Spec2Model ----
(***************************************************************************)
(* Model of order_create.py: the interactive pipeline                      *)
(*   token -> organizations -> terminal groups -> sections/tables ->       *)
(*   payment types -> order details -> order/create                        *)
(* One run of main() is a state machine whose steps are the remote calls   *)
(* (request sent / response handled) and the operator prompts.             *)
(*                                                                         *)
(* JSON objects are functions from key to value (a missing key is a key    *)
(* outside the DOMAIN), JSON arrays are sequences.  Decimal numbers are    *)
(* integers counting hundredths.                                           *)
(***************************************************************************)
EXTENDS Integers, Sequences, FiniteSets, TLC

VARIABLES
    pc,                 \* control location of main()
    token,
    organizations, organization_id,
    terminal_groups, terminal_group_id,
    sections, table_dict, table_index, table_id,
    payment_types, payment_type_id,
    customer_name, customer_phone,
    product_id, product_price, product_quantity, payment_sum,
    payload,            \* JSON body of the order/create request
    result,             \* value returned by create_order
    inflight,           \* the HTTP request awaiting its response
    resp,               \* the last HTTP response (or transport failure)
    log,                \* every HTTP request issued so far, in order
    outcome,            \* per endpoint: how its call ended
    invalidInputs,      \* operator inputs of this run that were malformed
    typed,              \* what the operator typed at the prompts of steps 6 and 8
    message             \* last user-facing outcome message of main()

callVars    == <<inflight, resp, log, outcome>>
orgVars     == <<organizations, organization_id>>
tgVars      == <<terminal_groups, terminal_group_id>>
tableVars   == <<sections, table_dict, table_index, table_id>>
payVars     == <<payment_types, payment_type_id>>
detailVars  == <<customer_name, customer_phone, product_id, product_price,
                 product_quantity, payment_sum>>
orderVars   == <<payload, result>>
vars == <<pc, token, orgVars, tgVars, tableVars, payVars, detailVars,
          orderVars, callVars, invalidInputs, typed, message>>

-----------------------------------------------------------------------------
(* Bounds of the model *)

MaxOrgs == 2            \* organizations in one response
MaxItems == 2           \* items in one terminal-groups response
MaxBlocks == 2          \* blocks of one terminal-groups response
MaxSections == 2        \* sections in one response
MaxTables == 2          \* tables in one sections response
MaxPaymentTypes == 2    \* payment types in one response

-----------------------------------------------------------------------------
(* Python values *)

None == "<None>"                \* Python None where a string is expected
Unbound == "<unbound>"          \* a local of main() not assigned yet
NoNum == -999999                \* a numeric local of main() not assigned yet

EmptyObj == [k \in {} |-> None] \* the JSON object {}

\* dict.get(key, default)
Get(obj, key, default) == IF key \in DOMAIN obj THEN obj[key] ELSE default

\* truth value of a string-or-None
Truthy(s) == s # None /\ s # ""

\* "if not product_id:" without the strip()
Blank_NoStrip(s) == s = ""

\* str.strip() is empty
Blank(s) == s \in {"", " "}

Range(s) == {s[i] : i \in 1..Len(s)}

SeqsUpTo(S, n) == UNION {[1..k -> S] : k \in 0..n}

\* int(s): spaces around an integer literal are accepted, anything else
\* raises ValueError
PyInt(s) ==
    CASE s = "0"   -> [ok |-> TRUE, val |-> 0]
      [] s = "1"   -> [ok |-> TRUE, val |-> 1]
      [] s = "2"   -> [ok |-> TRUE, val |-> 2]
      [] s = " 2 " -> [ok |-> TRUE, val |-> 2]
      [] s = "3"   -> [ok |-> TRUE, val |-> 3]
      [] s = "4"   -> [ok |-> TRUE, val |-> 4]
      [] s = "5"   -> [ok |-> TRUE, val |-> 5]
      [] s = "-1"  -> [ok |-> TRUE, val |-> -1]
      [] OTHER     -> [ok |-> FALSE, val |-> 0]

\* float(s), in hundredths; raises ValueError on anything that is not a
\* number literal
PyFloat(s) ==
    CASE s = "0"   -> [ok |-> TRUE, val |-> 0]
      [] s = "2"   -> [ok |-> TRUE, val |-> 200]
      [] s = "2.5" -> [ok |-> TRUE, val |-> 250]
      [] s = "5"   -> [ok |-> TRUE, val |-> 500]
      [] s = "10"  -> [ok |-> TRUE, val |-> 1000]
      [] s = "-1"  -> [ok |-> TRUE, val |-> -100]
      [] s = "-3"  -> [ok |-> TRUE, val |-> -300]
      [] OTHER     -> [ok |-> FALSE, val |-> 0]

\* the product without the rescaling to hundredths
FloatMul_Unscaled(a, b) == a * b

\* product of two decimals
FloatMul(a, b) == (a * b) \div 100

-----------------------------------------------------------------------------
(* The HTTP layer *)

Endpoints == {"access_token", "organizations", "terminal_groups",
              "available_restaurant_sections", "payment_types", "order_create"}

CatalogEndpoints == {"organizations", "terminal_groups",
                     "available_restaurant_sections", "payment_types"}

NoTimeout == 0          \* requests' default: wait for ever
LookupTimeout == 10
SubmitTimeout == 15

\* the timeout= argument of each requests call
TimeoutOf(ep) ==
    CASE ep = "access_token" -> NoTimeout
      [] ep = "organizations" -> NoTimeout
      [] ep = "terminal_groups" -> NoTimeout
      [] ep = "available_restaurant_sections" -> LookupTimeout
      [] ep = "payment_types" -> LookupTimeout
      [] ep = "order_create" -> SubmitTimeout

NoCall == [ep |-> "none", scope |-> <<>>, timeout |-> NoTimeout]
NoResp == [ep |-> "none", status |-> "none", body |-> EmptyObj]

\* ways a call can end other than with a 2xx response and a JSON body
FailureStatus == {"http_error", "transport_error", "timeout", "bad_json"}

TimeoutResp == [status |-> "timeout", body |-> EmptyObj]
ErrorResps == {[status |-> s, body |-> EmptyObj] :
                   s \in {"http_error", "transport_error", "bad_json"}}
Ok(body) == [status |-> "ok", body |-> body]

\* the exception raised inside the try block of a call
Raised(r) ==
    CASE r.status = "transport_error" -> "ConnectionError"
      [] r.status = "timeout"         -> "Timeout"
      [] r.status = "http_error"      -> "HTTPError"
      [] r.status = "bad_json"        -> "JSONDecodeError"
      [] OTHER                        -> "none"

\* only "except requests.HTTPError"
ExceptClauses_HTTPOnly == <<"HTTPError">>

\* the except clauses that follow every try block
ExceptClauses == <<"HTTPError", "Exception">>

\* exception class hierarchy
IsSubclass(exc, cls) == cls = exc \/ cls = "Exception"

Caught(exc) == \E i \in 1..Len(ExceptClauses) : IsSubclass(exc, ExceptClauses[i])

\* what a call function hands back: a value, or an exception that escaped
Returns(v) == [raised |-> "none", value |-> v]
Escapes(exc, v) == [raised |-> exc, value |-> v]

\* try: ... except ...: ... ; return fallback
TryCall(r, value, fallback) ==
    IF Raised(r) = "none" THEN Returns(value)
    ELSE IF Caught(Raised(r)) THEN Returns(fallback)
    ELSE Escapes(Raised(r), fallback)

-----------------------------------------------------------------------------
(* The call functions: the value each returns for a given response *)

\* get_access_token
get_access_token(r) ==
    LET tok == Get(r.body, "token", None)
    IN  TryCall(r, IF Truthy(tok) THEN tok ELSE None, None)

\* get_organizations
get_organizations(r) ==
    TryCall(r, Get(r.body, "organizations", <<>>), <<>>)

\* 'organizationId' read from the item instead of from its block
RECURSIVE tg_items_ItemOrg(_, _, _)
tg_items_ItemOrg(items, organization_id_, acc) ==
    IF items = <<>> THEN acc
    ELSE LET item == Head(items)
             tg_id == Get(item, "id", None)
             tg_name == Get(item, "name", "NoName")
         IN  tg_items_ItemOrg(Tail(items), organization_id_,
                      IF Truthy(tg_id)
                      THEN Append(acc, [id |-> tg_id, name |-> tg_name,
                                        organizationId |->
                                            Get(item, "organizationId", None)])
                      ELSE acc)

\* the inner loop of get_terminal_groups: the items of one block
RECURSIVE tg_items(_, _, _)
tg_items(items, organization_id_, acc) ==
    IF items = <<>> THEN acc
    ELSE LET item == Head(items)
             tg_id == Get(item, "id", None)
             tg_name == Get(item, "name", "NoName")
         IN  tg_items(Tail(items), organization_id_,
                      IF Truthy(tg_id)
                      THEN Append(acc, [id |-> tg_id, name |-> tg_name,
                                        organizationId |-> organization_id_])
                      ELSE acc)

\* the outer loop of get_terminal_groups: the blocks of the response
RECURSIVE tg_blocks(_, _)
tg_blocks(blocks, acc) ==
    IF blocks = <<>> THEN acc
    ELSE LET group_block == Head(blocks)
         IN  tg_blocks(Tail(blocks),
                       tg_items(Get(group_block, "items", <<>>),
                                Get(group_block, "organizationId", None), acc))

\* the sleeping groups put first
terminal_groups_data_SleepFirst(data) ==
    Get(data, "terminalGroupsInSleep", <<>>) \o Get(data, "terminalGroups", <<>>)

\* the two fields of the response, concatenated
terminal_groups_data(data) ==
    Get(data, "terminalGroups", <<>>) \o Get(data, "terminalGroupsInSleep", <<>>)

\* get_terminal_groups; organization_ids only goes into the request
get_terminal_groups(organization_ids, r) ==
    TryCall(r, tg_blocks(terminal_groups_data(r.body), <<>>), <<>>)

\* get_available_restaurant_sections
get_available_restaurant_sections(r) ==
    TryCall(r, Get(r.body, "restaurantSections", <<>>), <<>>)

\* get_payment_types
get_payment_types(r) ==
    TryCall(r, Get(r.body, "paymentTypes", <<>>), <<>>)

\* the payment kind following the payment type chosen: only p2 is cash
OrderPayload_KindOfType(organization_id_, terminal_group_id_, table_id_, customer_name_, customer_phone_, product_id_, product_price_, product_quantity_, payment_type_id_, payment_sum_) ==
    [ organizationId |-> organization_id_,
      terminalGroupId |-> terminal_group_id_,
      order |-> [
          tableIds |-> <<table_id_>>,
          customer |-> [name |-> customer_name_, type |-> "regular"],
          phone |-> customer_phone_,
          items |-> << [productId |-> product_id_, type |-> "Product",
                        price |-> product_price_,
                        amount |-> product_quantity_] >>,
          payments |-> << [paymentTypeKind |->
                               IF payment_type_id_ = "p2" THEN "Cash"
                               ELSE "Card",
                           sum |-> payment_sum_,
                           paymentTypeId |-> payment_type_id_,
                           isProcessedExternally |-> FALSE,
                           isFiscalizedExternally |-> FALSE,
                           isPrepay |-> FALSE] >> ],
      createOrderSettings |-> [servicePrint |-> FALSE,
                               transportToFrontTimeout |-> 15,
                               checkStopList |-> FALSE] ]

\* the request body built by create_order
OrderPayload(organization_id_, terminal_group_id_, table_id_, customer_name_, customer_phone_, product_id_, product_price_, product_quantity_, payment_type_id_, payment_sum_) ==
    [ organizationId |-> organization_id_,
      terminalGroupId |-> terminal_group_id_,
      order |-> [
          tableIds |-> <<table_id_>>,
          customer |-> [name |-> customer_name_, type |-> "regular"],
          phone |-> customer_phone_,
          items |-> << [productId |-> product_id_, type |-> "Product",
                        price |-> product_price_,
                        amount |-> product_quantity_] >>,
          payments |-> << [paymentTypeKind |-> "Cash",
                           sum |-> payment_sum_,
                           paymentTypeId |-> payment_type_id_,
                           isProcessedExternally |-> FALSE,
                           isFiscalizedExternally |-> FALSE,
                           isPrepay |-> FALSE] >> ],
      createOrderSettings |-> [servicePrint |-> FALSE,
                               transportToFrontTimeout |-> 15,
                               checkStopList |-> FALSE] ]

NoPayload == EmptyObj

\* no answer read yet from the prompts for the name, the phone and the sum
NothingTyped == [name |-> Unbound, phone |-> Unbound, sum |-> Unbound]

\* create_order: the parsed body on success, {} otherwise
create_order(r) == TryCall(r, r.body, EmptyObj)

\* the table numbering loop of main(): counter -> table id
RECURSIVE number_tables(_, _, _)
number_tables(tables, dict, counter) ==
    IF tables = <<>> THEN [dict |-> dict, counter |-> counter]
    ELSE number_tables(Tail(tables),
                       dict @@ (counter :> Get(Head(tables), "id", None)),
                       counter + 1)

\* the numbering started again in every section
RECURSIVE number_sections_PerSection(_, _, _)
number_sections_PerSection(secs, dict, counter) ==
    IF secs = <<>> THEN dict
    ELSE LET t == number_tables(Get(Head(secs), "tables", <<>>), dict, 1)
         IN  number_sections_PerSection(Tail(secs), t.dict, t.counter)

RECURSIVE number_sections(_, _, _)
number_sections(secs, dict, counter) ==
    IF secs = <<>> THEN dict
    ELSE LET t == number_tables(Get(Head(secs), "tables", <<>>), dict, counter)
         IN  number_sections(Tail(secs), t.dict, t.counter)

EmptyDict == <<>>

build_table_dict(secs) == number_sections(secs, EmptyDict, 1)

\* 1 <= index <= len(list)
InRange(index, n) == ~(index < 1 \/ index > n)

-----------------------------------------------------------------------------
(* What the service may answer, and what the operator may type *)

OrgIdSeq == <<"o1", "o2", "o3">>
OrgIds == {OrgIdSeq[i] : i \in 1..MaxOrgs}
OrgObj(i) == [id |-> OrgIdSeq[i], name |-> "Org"]

TokenBodies == {[token |-> "tok"], [token |-> ""], EmptyObj}
TokenResponses == {Ok(b) : b \in TokenBodies} \cup ErrorResps

OrgBodies == {[organizations |-> [i \in 1..n |-> OrgObj(i)]] : n \in 0..MaxOrgs}
                 \cup {EmptyObj}
OrgResponses == {Ok(b) : b \in OrgBodies} \cup ErrorResps

\* items of a terminal-group block: with id and name, without name, without
\* id, with an empty id
ItemKinds == {[id |-> "tgA", name |-> "Bar"], [id |-> "tgB"], [name |-> "Hall"],
              [id |-> "", name |-> "Kitchen"]}
ItemSeqs == SeqsUpTo(ItemKinds, MaxItems)
BlockOrgs == {OrgIdSeq[1], OrgIdSeq[2]}
Blocks == {[organizationId |-> o, items |-> its] : o \in BlockOrgs, its \in ItemSeqs}

\* the sequences of at most k blocks that list at most n items in all
RECURSIVE BlockSeqsWithin(_, _)
BlockSeqsWithin(k, n) ==
    IF k = 0 THEN {<<>>}
    ELSE {<<>>} \cup
         UNION {{<<b>> \o rest : rest \in BlockSeqsWithin(k - 1, n - Len(b.items))}
                    : b \in {c \in Blocks : Len(c.items) <= n}}

BlockSeqs == BlockSeqsWithin(MaxBlocks, MaxItems)

\* every terminal-groups body: a block sequence cut in two partitions, an
\* empty partition being an empty array or a missing key
TGBodies ==
    UNION {{[terminalGroups |-> SubSeq(b, 1, k),
             terminalGroupsInSleep |-> SubSeq(b, k + 1, Len(b))] : k \in 0..Len(b)}
               : b \in BlockSeqs}
        \cup {[terminalGroups |-> b] : b \in BlockSeqs}
        \cup {[terminalGroupsInSleep |-> b] : b \in BlockSeqs}
        \cup {EmptyObj}

TGResponses == {Ok(b) : b \in TGBodies} \cup ErrorResps

\* the responses met in a whole run: a single block, active or sleeping,
\* listing the first n of three items
RunItems == <<[id |-> "tgA", name |-> "Bar"], [id |-> "tgB"], [name |-> "Hall"]>>
RunBlocks == {[organizationId |-> o, items |-> SubSeq(RunItems, 1, n)] :
                  o \in BlockOrgs, n \in 0..MaxItems}
RunTGBodies == {[terminalGroups |-> <<b>>, terminalGroupsInSleep |-> <<>>] : b \in RunBlocks}
                   \cup {[terminalGroupsInSleep |-> <<b>>] : b \in RunBlocks}
                   \cup {[terminalGroups |-> <<>>, terminalGroupsInSleep |-> <<>>], EmptyObj}
RunTGResponses == {Ok(b) : b \in RunTGBodies} \cup ErrorResps

\* the lists of organization ids get_terminal_groups is called with
Scopes == {<<OrgIdSeq[i]>> : i \in 1..MaxOrgs} \cup {<<OrgIdSeq[1], OrgIdSeq[2]>>}

TableIdSeq == << <<"t11", "t12", "t13">>, <<"t21", "t22", "t23">>,
                 <<"t31", "t32", "t33">> >>
TableObj(i, j) == [id |-> TableIdSeq[i][j], name |-> "Table"]
SectionObj(i, n) == [name |-> "Hall", tables |-> [j \in 1..n |-> TableObj(i, j)]]
RECURSIVE Sum(_)
Sum(f) == IF f = <<>> THEN 0 ELSE Head(f) + Sum(Tail(f))

SectionBodies ==
    UNION {{[restaurantSections |-> [i \in 1..k |-> SectionObj(i, f[i])]] :
                f \in {g \in [1..k -> 0..MaxTables] : Sum(g) <= MaxTables}}
               : k \in 0..MaxSections}
     \cup {EmptyObj}
SectionResponses == {Ok(b) : b \in SectionBodies} \cup ErrorResps

PaymentTypeSeq == << [id |-> "p1", name |-> "Card", paymentTypeKind |-> "Card"],
                     [id |-> "p2", name |-> "Cash", paymentTypeKind |-> "Cash"],
                     [id |-> "p3", name |-> "Bonus", paymentTypeKind |-> "External"] >>
PaymentBodies == {[paymentTypes |-> SubSeq(PaymentTypeSeq, 1, n)] :
                      n \in 0..MaxPaymentTypes} \cup {EmptyObj}
PaymentResponses == {Ok(b) : b \in PaymentBodies} \cup ErrorResps

OrderBodies == {[orderInfo |-> "created"], EmptyObj}
OrderResponses == {Ok(b) : b \in OrderBodies} \cup ErrorResps

IndexInputs == {"", "abc", "-1", "0", "1", "2", " 2 ", "3", "4", "5"}
ManualInputs == {"", "pt-manual"}
ProductInputs == {"", " ", "prod-1"}

\* the order details typed in a whole run
RunNameInputs == {"", "Ann"}
RunPhoneInputs == {"555"}
RunPriceInputs == {"abc", "", "10"}
RunQuantityInputs == {"abc", "2"}
RunSumInputs == {""}

\* the order details typed when the details are explored on their own
NameInputs == {"", " ", "Ann"}
PhoneInputs == {"", "555"}
PriceInputs == {"abc", "", "10", "0", "-1"}
QuantityInputs == {"abc", "2", "2.5", "0", "-1"}
SumInputs == {"", " ", "abc", "5", "-3"}

-----------------------------------------------------------------------------
(* Classification of operator input, by what was typed *)

\* what is wrong with an answer to a numbered menu of n entries
IndexFault(s, n) ==
    IF ~PyInt(s).ok THEN "non_numeric"
    ELSE IF PyInt(s).val \notin 1..n THEN "out_of_range"
    ELSE "none"

\* an answer made of nothing but white space
IsBlankText(s) == s = "" \/ s = " "

\* what is wrong with an answer to the payment-type menu: Enter is allowed
PaymentFault(s, n) == IF IsBlankText(s) THEN "none" ELSE IndexFault(s, n)

Fault(prompt, kind) == IF kind = "none" THEN {} ELSE {<<prompt, kind>>}

-----------------------------------------------------------------------------
(* The run *)

Init ==
    /\ pc = "start"
    /\ token = None
    /\ organizations = <<>> /\ organization_id = Unbound
    /\ terminal_groups = <<>> /\ terminal_group_id = Unbound
    /\ sections = <<>> /\ table_dict = EmptyDict
    /\ table_index = 0 /\ table_id = Unbound
    /\ payment_types = <<>> /\ payment_type_id = Unbound
    /\ customer_name = Unbound /\ customer_phone = Unbound
    /\ product_id = Unbound
    /\ product_price = NoNum /\ product_quantity = NoNum /\ payment_sum = NoNum
    /\ payload = NoPayload /\ result = EmptyObj
    /\ inflight = NoCall /\ resp = NoResp /\ log = <<>>
    /\ outcome = [ep \in Endpoints |-> "none"]
    /\ invalidInputs = {}
    /\ typed = NothingTyped
    /\ message = ""

\* requests.get / requests.post: the request leaves
Call(ep, scope) ==
    /\ inflight' = [ep |-> ep, scope |-> scope, timeout |-> TimeoutOf(ep)]
    /\ log' = Append(log, [ep |-> ep, scope |-> scope])
    /\ UNCHANGED <<resp, outcome>>

\* the blocked call ends with response (or failure) r
Arrive(ep, r) ==
    /\ inflight.ep = ep
    /\ inflight' = NoCall
    /\ resp' = [ep |-> ep, status |-> r.status, body |-> r.body]
    /\ outcome' = [outcome EXCEPT ![ep] = r.status]
    /\ UNCHANGED log

\* main() returns early with a message
Abort(msg) == pc' = "aborted" /\ message' = msg

\* an exception leaves main()
Crash == pc' = "crashed" /\ UNCHANGED message

Goto(loc) == pc' = loc /\ UNCHANGED message

\* "if token == '': return"
AfterToken_EmptyOnly(tok) == IF tok = "" THEN "aborted" ELSE "orgs_call"

\* where main() goes with the value of a call: return on a falsy value
AfterToken(tok) == IF ~Truthy(tok) THEN "aborted" ELSE "orgs_call"
AfterOrganizations(orgs) == IF orgs = <<>> THEN "aborted" ELSE "org_input"
\* "if terminal_groups: return"
AfterTerminalGroups_Inverted(tgs) == IF tgs # <<>> THEN "aborted" ELSE "tg_input"

AfterTerminalGroups(tgs) == IF tgs = <<>> THEN "aborted" ELSE "tg_input"
AfterSections(secs) == IF secs = <<>> THEN "aborted" ELSE "number_tables"
\* the payment types fetched as soon as the tables are known
AfterTableDict_PaymentTypesFirst(dict) == IF dict = EmptyDict THEN "aborted" ELSE "pt_call"

\* the table prompt without the "if not table_dict: return"
AfterTableDict_AlwaysPrompt(dict) == "table_input"

AfterTableDict(dict) == IF dict = EmptyDict THEN "aborted" ELSE "table_input"
\* the order submitted at once when there is no payment type to choose
AfterPaymentTypes_SubmitsAtOnce(pts) == IF pts # <<>> THEN "pt_input" ELSE "order_call"

AfterPaymentTypes(pts) == IF pts # <<>> THEN "pt_input" ELSE "pt_manual"

Continue(loc, msg) == IF loc = "aborted" THEN Abort(msg) ELSE Goto(loc)

\* the scoping argument of each lookup
TerminalGroupsArg == <<organization_id>>
SectionsArg == <<terminal_group_id>>
\* get_payment_types(token, [terminal_group_id])
PaymentTypesArg_WrongId == <<terminal_group_id>>

PaymentTypesArg == <<organization_id>>

\* 1) token = get_access_token(API_LOGIN)
Call_Token ==
    /\ pc = "start"
    /\ UNCHANGED typed
    /\ Call("access_token", <<>>)
    /\ pc' = "token_wait"
    /\ UNCHANGED <<token, orgVars, tgVars, tableVars, payVars, detailVars,
                   orderVars, invalidInputs, message>>

Return_Token(r) ==
    /\ pc = "token_wait"
    /\ UNCHANGED typed
    /\ Arrive("access_token", r)
    /\ LET ret == get_access_token(r)
       IN  IF ret.raised # "none"
           THEN Crash /\ UNCHANGED token
           ELSE /\ token' = ret.value
                /\ Continue(AfterToken(ret.value), "no_token")
    /\ UNCHANGED <<orgVars, tgVars, tableVars, payVars, detailVars,
                   orderVars, invalidInputs>>

\* 2) organizations = get_organizations(token)
Call_Organizations ==
    /\ pc = "orgs_call"
    /\ UNCHANGED typed
    /\ Call("organizations", <<>>)
    /\ pc' = "orgs_wait"
    /\ UNCHANGED <<token, orgVars, tgVars, tableVars, payVars, detailVars,
                   orderVars, invalidInputs, message>>

Return_Organizations(r) ==
    /\ pc = "orgs_wait"
    /\ UNCHANGED typed
    /\ Arrive("organizations", r)
    /\ LET ret == get_organizations(r)
       IN  IF ret.raised # "none"
           THEN Crash /\ UNCHANGED organizations
           ELSE /\ organizations' = ret.value
                /\ Continue(AfterOrganizations(ret.value), "no_organizations")
    /\ UNCHANGED <<token, organization_id, tgVars, tableVars, payVars,
                   detailVars, orderVars, invalidInputs>>

\* org_index = input(...); organization_id = organizations[org_index - 1].get('id')
Ask_Organization(s) ==
    /\ pc = "org_input"
    /\ UNCHANGED typed
    /\ invalidInputs' = invalidInputs \cup
           Fault("organization", IndexFault(s, Len(organizations)))
    /\ LET p == PyInt(s)
       IN  IF ~p.ok
           THEN Abort("not_integer") /\ UNCHANGED organization_id
           ELSE IF ~InRange(p.val, Len(organizations))
           THEN Abort("bad_organization_number") /\ UNCHANGED organization_id
           ELSE /\ organization_id' = Get(organizations[p.val], "id", None)
                /\ Goto("tg_call")
    /\ UNCHANGED <<token, organizations, tgVars, tableVars, payVars,
                   detailVars, orderVars, callVars>>

\* 3) terminal_groups = get_terminal_groups(token, [organization_id])
Call_TerminalGroups ==
    /\ pc = "tg_call"
    /\ UNCHANGED typed
    /\ Call("terminal_groups", TerminalGroupsArg)
    /\ pc' = "tg_wait"
    /\ UNCHANGED <<token, orgVars, tgVars, tableVars, payVars, detailVars,
                   orderVars, invalidInputs, message>>

Return_TerminalGroups(r) ==
    /\ pc = "tg_wait"
    /\ UNCHANGED typed
    /\ Arrive("terminal_groups", r)
    /\ LET ret == get_terminal_groups(inflight.scope, r)
       IN  IF ret.raised # "none"
           THEN Crash /\ UNCHANGED terminal_groups
           ELSE /\ terminal_groups' = ret.value
                /\ Continue(AfterTerminalGroups(ret.value), "no_terminal_groups")
    /\ UNCHANGED <<token, orgVars, terminal_group_id, tableVars, payVars,
                   detailVars, orderVars, invalidInputs>>

\* tg_index = input(...); terminal_group_id = terminal_groups[tg_index - 1].get('id')
Ask_TerminalGroup(s) ==
    /\ pc = "tg_input"
    /\ UNCHANGED typed
    /\ invalidInputs' = invalidInputs \cup
           Fault("terminal_group", IndexFault(s, Len(terminal_groups)))
    /\ LET p == PyInt(s)
       IN  IF ~p.ok
           THEN Abort("not_integer") /\ UNCHANGED terminal_group_id
           ELSE IF ~InRange(p.val, Len(terminal_groups))
           THEN Abort("bad_terminal_group_number") /\ UNCHANGED terminal_group_id
           ELSE /\ terminal_group_id' = Get(terminal_groups[p.val], "id", None)
                /\ Goto("sections_call")
    /\ UNCHANGED <<token, orgVars, terminal_groups, tableVars, payVars,
                   detailVars, orderVars, callVars>>

\* 4) sections = get_available_restaurant_sections(token, [terminal_group_id])
Call_Sections ==
    /\ pc = "sections_call"
    /\ UNCHANGED typed
    /\ Call("available_restaurant_sections", SectionsArg)
    /\ pc' = "sections_wait"
    /\ UNCHANGED <<token, orgVars, tgVars, tableVars, payVars, detailVars,
                   orderVars, invalidInputs, message>>

\* ... followed by the numbering of the tables
Return_Sections(r) ==
    /\ pc = "sections_wait"
    /\ UNCHANGED typed
    /\ Arrive("available_restaurant_sections", r)
    /\ LET ret == get_available_restaurant_sections(r)
       IN  IF ret.raised # "none"
           THEN Crash /\ UNCHANGED <<sections, table_dict>>
           ELSE /\ sections' = ret.value
                /\ IF AfterSections(ret.value) = "aborted"
                   THEN Abort("no_sections") /\ UNCHANGED table_dict
                   ELSE /\ table_dict' = build_table_dict(ret.value)
                        /\ Continue(AfterTableDict(build_table_dict(ret.value)),
                                    "no_tables")
    /\ UNCHANGED <<token, orgVars, tgVars, table_index, table_id, payVars,
                   detailVars, orderVars, invalidInputs>>

\* table_index = input(...); table_id = table_dict[table_index]
Ask_Table(s) ==
    /\ pc = "table_input"
    /\ UNCHANGED typed
    /\ invalidInputs' = invalidInputs \cup
           Fault("table", IndexFault(s, Cardinality(DOMAIN table_dict)))
    /\ LET p == PyInt(s)
       IN  IF ~p.ok
           THEN Abort("not_integer") /\ UNCHANGED <<table_index, table_id>>
           ELSE IF ~InRange(p.val, Cardinality(DOMAIN table_dict))
           THEN Abort("bad_table_number") /\ UNCHANGED <<table_index, table_id>>
           ELSE /\ table_index' = p.val
                /\ table_id' = table_dict[p.val]
                /\ Goto("pt_call")
    /\ UNCHANGED <<token, orgVars, tgVars, sections, table_dict, payVars,
                   detailVars, orderVars, callVars>>

\* 5) payment_types = get_payment_types(token, [organization_id])
Call_PaymentTypes ==
    /\ pc = "pt_call"
    /\ UNCHANGED typed
    /\ Call("payment_types", PaymentTypesArg)
    /\ pc' = "pt_wait"
    /\ UNCHANGED <<token, orgVars, tgVars, tableVars, payVars, detailVars,
                   orderVars, invalidInputs, message>>

Return_PaymentTypes(r) ==
    /\ pc = "pt_wait"
    /\ UNCHANGED typed
    /\ Arrive("payment_types", r)
    /\ LET ret == get_payment_types(r)
       IN  IF ret.raised # "none"
           THEN Crash /\ UNCHANGED payment_types
           ELSE /\ payment_types' = ret.value
                /\ Goto(AfterPaymentTypes(ret.value))
    /\ UNCHANGED <<token, orgVars, tgVars, tableVars, payment_type_id,
                   detailVars, orderVars, invalidInputs>>

\* pt_index = input(...), with the first payment type as the fallback
Ask_PaymentType(s) ==
    /\ pc = "pt_input"
    /\ UNCHANGED typed
    /\ invalidInputs' = invalidInputs \cup
           Fault("payment_type", PaymentFault(s, Len(payment_types)))
    /\ LET p == PyInt(s)
       IN  IF ~Blank(s)
           THEN IF ~p.ok
                THEN /\ payment_type_id' = Get(payment_types[1], "id", None)
                     /\ Goto("name_input")
                ELSE IF ~InRange(p.val, Len(payment_types))
                THEN Abort("bad_payment_type_number") /\ UNCHANGED payment_type_id
                ELSE /\ payment_type_id' = Get(payment_types[p.val], "id", None)
                     /\ Goto("name_input")
           ELSE /\ payment_type_id' = Get(payment_types[1], "id", None)
                /\ Goto("name_input")
    /\ UNCHANGED <<token, orgVars, tgVars, tableVars, payment_types,
                   detailVars, orderVars, callVars>>

\* payment_type_id = input("... UUID ...")
Ask_ManualPaymentType(s) ==
    /\ pc = "pt_manual"
    /\ UNCHANGED typed
    /\ payment_type_id' = s
    /\ Goto("name_input")
    /\ UNCHANGED <<token, orgVars, tgVars, tableVars, payment_types,
                   detailVars, orderVars, callVars, invalidInputs>>

\* 6) customer_name, customer_phone
Ask_Name(s) ==
    /\ pc = "name_input"
    /\ typed' = [typed EXCEPT !.name = s]
    /\ customer_name' = IF Blank(s) THEN "Guest" ELSE s
    /\ Goto("phone_input")
    /\ UNCHANGED <<token, orgVars, tgVars, tableVars, payVars, customer_phone,
                   product_id, product_price, product_quantity, payment_sum,
                   orderVars, callVars, invalidInputs>>

Ask_Phone(s) ==
    /\ pc = "phone_input"
    /\ typed' = [typed EXCEPT !.phone = s]
    /\ customer_phone' = s
    /\ Goto("product_input")
    /\ UNCHANGED <<token, orgVars, tgVars, tableVars, payVars, customer_name,
                   product_id, product_price, product_quantity, payment_sum,
                   orderVars, callVars, invalidInputs>>

\* 7) product_id, product_price, product_quantity
Ask_Product(s) ==
    /\ pc = "product_input"
    /\ UNCHANGED typed
    /\ product_id' = s
    /\ invalidInputs' = invalidInputs \cup
           Fault("productId", IF IsBlankText(s) THEN "blank" ELSE "none")
    /\ IF Blank(s) THEN Abort("product_required") ELSE Goto("price_input")
    /\ UNCHANGED <<token, orgVars, tgVars, tableVars, payVars, customer_name,
                   customer_phone, product_price, product_quantity, payment_sum,
                   orderVars, callVars>>

Ask_Price(s) ==
    /\ pc = "price_input"
    /\ UNCHANGED typed
    /\ invalidInputs' = invalidInputs \cup
           Fault("price", IF PyFloat(s).ok THEN "none" ELSE "non_numeric")
    /\ IF PyFloat(s).ok
       THEN product_price' = PyFloat(s).val /\ Goto("quantity_input")
       ELSE Abort("bad_price_or_quantity") /\ UNCHANGED product_price
    /\ UNCHANGED <<token, orgVars, tgVars, tableVars, payVars, customer_name,
                   customer_phone, product_id, product_quantity, payment_sum,
                   orderVars, callVars>>

Ask_Quantity(s) ==
    /\ pc = "quantity_input"
    /\ UNCHANGED typed
    /\ invalidInputs' = invalidInputs \cup
           Fault("quantity", IF PyFloat(s).ok THEN "none" ELSE "non_numeric")
    /\ IF PyFloat(s).ok
       THEN product_quantity' = PyFloat(s).val /\ Goto("sum_input")
       ELSE Abort("bad_price_or_quantity") /\ UNCHANGED product_quantity
    /\ UNCHANGED <<token, orgVars, tgVars, tableVars, payVars, customer_name,
                   customer_phone, product_id, product_price, payment_sum,
                   orderVars, callVars>>

\* 8) payment_sum, price * quantity unless a number is typed
Ask_Sum(s) ==
    /\ pc = "sum_input"
    /\ typed' = [typed EXCEPT !.sum = s]
    /\ payment_sum' = IF ~Blank(s) /\ PyFloat(s).ok
                      THEN PyFloat(s).val
                      ELSE FloatMul(product_price, product_quantity)
    /\ Goto("order_call")
    /\ UNCHANGED <<token, orgVars, tgVars, tableVars, payVars, customer_name,
                   customer_phone, product_id, product_price, product_quantity,
                   orderVars, callVars, invalidInputs>>

\* 9) result = create_order(...)
Call_Order ==
    /\ pc = "order_call"
    /\ UNCHANGED typed
    /\ payload' = OrderPayload(organization_id, terminal_group_id, table_id,
                               customer_name, customer_phone, product_id,
                               product_price, product_quantity,
                               payment_type_id, payment_sum)
    /\ Call("order_create", <<>>)
    /\ pc' = "order_wait"
    /\ UNCHANGED <<token, orgVars, tgVars, tableVars, payVars, detailVars,
                   result, invalidInputs, message>>

Return_Order(r) ==
    /\ pc = "order_wait"
    /\ UNCHANGED typed
    /\ Arrive("order_create", r)
    /\ LET ret == create_order(r)
       IN  IF ret.raised # "none"
           THEN Crash /\ UNCHANGED result
           ELSE /\ result' = ret.value
                /\ pc' = "done"
                /\ message' = IF ret.value # EmptyObj THEN "order_created"
                              ELSE "order_failed"
    /\ UNCHANGED <<token, orgVars, tgVars, tableVars, payVars, detailVars,
                   payload, invalidInputs>>

-----------------------------------------------------------------------------
(* The service answers, or the timeout of the call expires *)

Receive_Token == pc = "token_wait" /\ \E r \in TokenResponses : Return_Token(r)
Receive_Organizations == pc = "orgs_wait" /\ \E r \in OrgResponses : Return_Organizations(r)
Receive_TerminalGroups == pc = "tg_wait" /\ \E r \in RunTGResponses : Return_TerminalGroups(r)
Receive_Sections == pc = "sections_wait" /\ \E r \in SectionResponses : Return_Sections(r)
Receive_PaymentTypes == pc = "pt_wait" /\ \E r \in PaymentResponses : Return_PaymentTypes(r)
Receive_Order == pc = "order_wait" /\ \E r \in OrderResponses : Return_Order(r)

Deliver(r) ==
    \/ Return_Token(r)
    \/ Return_Organizations(r)
    \/ Return_TerminalGroups(r)
    \/ Return_Sections(r)
    \/ Return_PaymentTypes(r)
    \/ Return_Order(r)

\* requests raises Timeout when the call was given a timeout
TimeoutExpires ==
    /\ inflight.timeout # NoTimeout
    /\ Deliver(TimeoutResp)

Input_Organization == pc = "org_input" /\ \E s \in IndexInputs : Ask_Organization(s)
Input_TerminalGroup == pc = "tg_input" /\ \E s \in IndexInputs : Ask_TerminalGroup(s)
Input_Table == pc = "table_input" /\ \E s \in IndexInputs : Ask_Table(s)
Input_PaymentType == pc = "pt_input" /\ \E s \in IndexInputs : Ask_PaymentType(s)
Input_ManualPaymentType == pc = "pt_manual" /\ \E s \in ManualInputs : Ask_ManualPaymentType(s)
Input_Name == pc = "name_input" /\ \E s \in RunNameInputs : Ask_Name(s)
Input_Phone == pc = "phone_input" /\ \E s \in RunPhoneInputs : Ask_Phone(s)
Input_Product == pc = "product_input" /\ \E s \in ProductInputs : Ask_Product(s)
Input_Price == pc = "price_input" /\ \E s \in RunPriceInputs : Ask_Price(s)
Input_Quantity == pc = "quantity_input" /\ \E s \in RunQuantityInputs : Ask_Quantity(s)
Input_Sum == pc = "sum_input" /\ \E s \in RunSumInputs : Ask_Sum(s)

Calls ==
    \/ Call_Token \/ Call_Organizations \/ Call_TerminalGroups
    \/ Call_Sections \/ Call_PaymentTypes \/ Call_Order

Inputs ==
    \/ Input_Organization \/ Input_TerminalGroup \/ Input_Table
    \/ Input_PaymentType \/ Input_ManualPaymentType
    \/ Input_Name \/ Input_Phone \/ Input_Product
    \/ Input_Price \/ Input_Quantity \/ Input_Sum

Next ==
    \/ Call_Token \/ Receive_Token
    \/ Call_Organizations \/ Receive_Organizations \/ Input_Organization
    \/ Call_TerminalGroups \/ Receive_TerminalGroups \/ Input_TerminalGroup
    \/ Call_Sections \/ Receive_Sections \/ Input_Table
    \/ Call_PaymentTypes \/ Receive_PaymentTypes
    \/ Input_PaymentType \/ Input_ManualPaymentType
    \/ Input_Name \/ Input_Phone \/ Input_Product
    \/ Input_Price \/ Input_Quantity \/ Input_Sum
    \/ Call_Order \/ Receive_Order
    \/ TimeoutExpires

Spec == Init /\ [][Next]_vars

\* the program's own steps are taken when they can be; the operator answers
\* every prompt; the service may stay silent for ever
FairSpec == Spec /\ WF_vars(Calls) /\ WF_vars(Inputs) /\ WF_vars(TimeoutExpires)

-----------------------------------------------------------------------------
(* get_terminal_groups on its own: called with any list of organization    *)
(* ids, answered by any response                                           *)

InitTG ==
    /\ pc = "tg_wait"
    /\ token = "tok"
    /\ organizations = [i \in 1..MaxOrgs |-> OrgObj(i)]
    /\ \E scope \in Scopes :
          /\ organization_id = scope[1]
          /\ inflight = [ep |-> "terminal_groups", scope |-> scope,
                         timeout |-> TimeoutOf("terminal_groups")]
          /\ log = << [ep |-> "access_token", scope |-> <<>>],
                      [ep |-> "organizations", scope |-> <<>>],
                      [ep |-> "terminal_groups", scope |-> scope] >>
    /\ terminal_groups = <<>> /\ terminal_group_id = Unbound
    /\ sections = <<>> /\ table_dict = EmptyDict
    /\ table_index = 0 /\ table_id = Unbound
    /\ payment_types = <<>> /\ payment_type_id = Unbound
    /\ customer_name = Unbound /\ customer_phone = Unbound
    /\ product_id = Unbound
    /\ product_price = NoNum /\ product_quantity = NoNum /\ payment_sum = NoNum
    /\ payload = NoPayload /\ result = EmptyObj
    /\ resp = [ep |-> "organizations", status |-> "ok",
               body |-> [organizations |-> [i \in 1..MaxOrgs |-> OrgObj(i)]]]
    /\ outcome = [ep \in Endpoints |->
                     IF ep \in {"access_token", "organizations"} THEN "ok"
                     ELSE "none"]
    /\ invalidInputs = {}
    /\ typed = NothingTyped
    /\ message = ""

Apply_TerminalGroups == pc = "tg_wait" /\ \E r \in TGResponses : Return_TerminalGroups(r)

NextTG == Apply_TerminalGroups

SpecTG == InitTG /\ [][NextTG]_vars

-----------------------------------------------------------------------------
(* The order details on their own: from the moment the payment type is     *)
(* chosen, with every kind of answer to the prompts of steps 6 to 8        *)

InitDetails ==
    /\ pc = "name_input"
    /\ token = "tok"
    /\ organizations = <<OrgObj(1)>> /\ organization_id = OrgIdSeq[1]
    /\ terminal_groups = <<[id |-> "tgA", name |-> "Bar",
                            organizationId |-> OrgIdSeq[1]]>>
    /\ terminal_group_id = "tgA"
    /\ sections = <<SectionObj(1, 1)>>
    /\ table_dict = build_table_dict(<<SectionObj(1, 1)>>)
    /\ table_index = 1 /\ table_id = TableIdSeq[1][1]
    /\ payment_types = SubSeq(PaymentTypeSeq, 1, 1)
    /\ payment_type_id = PaymentTypeSeq[1].id
    /\ customer_name = Unbound /\ customer_phone = Unbound
    /\ product_id = Unbound
    /\ product_price = NoNum /\ product_quantity = NoNum /\ payment_sum = NoNum
    /\ payload = NoPayload /\ result = EmptyObj
    /\ inflight = NoCall
    /\ resp = [ep |-> "payment_types", status |-> "ok",
               body |-> [paymentTypes |-> SubSeq(PaymentTypeSeq, 1, 1)]]
    /\ log = << [ep |-> "access_token", scope |-> <<>>],
                [ep |-> "organizations", scope |-> <<>>],
                [ep |-> "terminal_groups", scope |-> <<OrgIdSeq[1]>>],
                [ep |-> "available_restaurant_sections", scope |-> <<"tgA">>],
                [ep |-> "payment_types", scope |-> <<OrgIdSeq[1]>>] >>
    /\ outcome = [ep \in Endpoints |->
                     IF ep = "order_create" THEN "none" ELSE "ok"]
    /\ invalidInputs = {}
    /\ typed = NothingTyped
    /\ message = ""

Detail_Name == pc = "name_input" /\ \E s \in NameInputs : Ask_Name(s)
Detail_Phone == pc = "phone_input" /\ \E s \in PhoneInputs : Ask_Phone(s)
Detail_Product == pc = "product_input" /\ \E s \in ProductInputs : Ask_Product(s)
Detail_Price == pc = "price_input" /\ \E s \in PriceInputs : Ask_Price(s)
Detail_Quantity == pc = "quantity_input" /\ \E s \in QuantityInputs : Ask_Quantity(s)
Detail_Sum == pc = "sum_input" /\ \E s \in SumInputs : Ask_Sum(s)

NextDetails ==
    \/ Detail_Name \/ Detail_Phone \/ Detail_Product
    \/ Detail_Price \/ Detail_Quantity \/ Detail_Sum
    \/ Call_Order \/ Receive_Order
    \/ TimeoutExpires

SpecDetails == InitDetails /\ [][NextDetails]_vars

\* InitDetails is a state of a whole run
InitDetailsInRun ==
    /\ pc = "name_input"
    /\ organizations = <<OrgObj(1)>>
    /\ terminal_groups = <<[id |-> "tgA", name |-> "Bar",
                            organizationId |-> OrgIdSeq[1]]>>
    /\ sections = <<SectionObj(1, 1)>>
    /\ table_dict = build_table_dict(<<SectionObj(1, 1)>>)
    /\ table_index = 1 /\ table_id = TableIdSeq[1][1]
    /\ payment_types = SubSeq(PaymentTypeSeq, 1, 1)
    /\ payment_type_id = PaymentTypeSeq[1].id
    /\ resp = [ep |-> "payment_types", status |-> "ok",
               body |-> [paymentTypes |-> SubSeq(PaymentTypeSeq, 1, 1)]]
    /\ Len(log) = 5
    /\ invalidInputs = {}

-----------------------------------------------------------------------------
(* Vocabulary of the properties *)

Requested(ep) == \E i \in 1..Len(log) : log[i].ep = ep
Count(ep) == Cardinality({i \in 1..Len(log) : log[i].ep = ep})
RequestOf(ep) == log[CHOOSE i \in 1..Len(log) : log[i].ep = ep]
LastRequest == log[Len(log)].ep
OrderSent == Requested("order_create")
Halted == pc \in {"aborted", "done", "crashed"}

\* the value main() holds for a lookup
ResultOf(ep) ==
    CASE ep = "organizations" -> organizations
      [] ep = "terminal_groups" -> terminal_groups
      [] ep = "available_restaurant_sections" -> sections
      [] ep = "payment_types" -> payment_types

\* the run-level state, read off the values main() has obtained so far
RunState ==
    IF OrderSent THEN "Submitted"
    ELSE IF payment_sum # NoNum THEN "DetailsCollected"
    ELSE IF payment_type_id # Unbound
         THEN IF payment_types = <<>> THEN "ManualPaymentType"
              ELSE "PaymentTypeChosen"
    ELSE IF table_id # Unbound THEN "TableChosen"
    ELSE IF terminal_group_id # Unbound THEN "TerminalGroupChosen"
    ELSE IF organization_id # Unbound THEN "OrganizationChosen"
    ELSE IF token # None THEN "Authenticated"
    ELSE "Unauthenticated"

Rank(st) ==
    CASE st = "Unauthenticated" -> 0
      [] st = "Authenticated" -> 1
      [] st = "OrganizationChosen" -> 2
      [] st = "TerminalGroupChosen" -> 3
      [] st = "TableChosen" -> 4
      [] st \in {"PaymentTypeChosen", "ManualPaymentType"} -> 5
      [] st = "DetailsCollected" -> 6
      [] st = "Submitted" -> 7

\* the state in which each of the three mandatory lookups is made
StateOfLookup(ep) ==
    CASE ep = "organizations" -> "Authenticated"
      [] ep = "terminal_groups" -> "OrganizationChosen"
      [] ep = "available_restaurant_sections" -> "TerminalGroupChosen"

IdsOf(list) == {Get(list[i], "id", None) : i \in 1..Len(list)}

TableIdsOf(secs) ==
    UNION {IdsOf(Get(secs[i], "tables", <<>>)) : i \in 1..Len(secs)}

-----------------------------------------------------------------------------
(* C1: the run-level state never moves backwards and never skips a state   *)
(* of the chain Unauthenticated .. Submitted, and once the organizations,  *)
(* terminal-groups or sections lookup has returned an empty result the run *)
(* is aborted in the state it was in, that lookup being the last request   *)
(* ever issued.                                                            *)

C1_EmptyLookupAborts ==
    \A ep \in {"organizations", "terminal_groups", "available_restaurant_sections"} :
        (outcome[ep] # "none" /\ ResultOf(ep) = <<>>)
            => /\ pc = "aborted"
               /\ LastRequest = ep
               /\ RunState = StateOfLookup(ep)

C1_ForwardOnly ==
    /\ [](C1_EmptyLookupAborts)
    /\ [][Rank(RunState') \in {Rank(RunState), Rank(RunState) + 1}]_vars

C1_Witness ==
    /\ outcome["terminal_groups"] = "ok"
    /\ terminal_groups = <<>>
    /\ pc = "aborted"
    /\ RunState = "OrganizationChosen"

-----------------------------------------------------------------------------
(* C2 as stated: a run in which the operator typed a malformed answer      *)
(* (non-numeric or out-of-range menu number, blank productId, non-numeric  *)
(* price or quantity) is aborted and sends no order-create request.        *)

C2_AnyInvalidInputAborts ==
    invalidInputs # {} => (pc = "aborted" /\ ~OrderSent)

(* C2 as amended: every such answer aborts the run before order-create,    *)
(* except a non-numeric payment-type number, after which the run goes on   *)
(* with the first payment type of the list.                                *)

PaymentTypeNonNumeric == <<"payment_type", "non_numeric">>

C2_InvalidInputAbortsExceptPaymentFallback ==
    /\ (invalidInputs \ {PaymentTypeNonNumeric}) # {}
           => (pc = "aborted" /\ ~OrderSent)
    /\ PaymentTypeNonNumeric \in invalidInputs
           => payment_type_id = Get(payment_types[1], "id", None)

C2_Witness ==
    /\ invalidInputs = {PaymentTypeNonNumeric, <<"productId", "blank">>}
    /\ pc = "aborted"
    /\ product_id = " "

-----------------------------------------------------------------------------
(* C3 as stated: in every order-create request the terminalGroupId is an   *)
(* id of the terminal-groups lookup made for the request's organizationId, *)
(* the table id an id of the sections lookup made for the request's        *)
(* terminalGroupId, and the paymentTypeId an id of the payment-types       *)
(* lookup made for the request's organizationId.                           *)

C3_LookupScoping ==
    OrderSent =>
        /\ payload.organizationId \in IdsOf(organizations)
        /\ RequestOf("terminal_groups").scope = <<payload.organizationId>>
        /\ RequestOf("available_restaurant_sections").scope = <<payload.terminalGroupId>>
        /\ RequestOf("payment_types").scope = <<payload.organizationId>>
        /\ payload.terminalGroupId \in IdsOf(terminal_groups)
        /\ payload.order.tableIds[1] \in TableIdsOf(sections)

C3_AllIdsFromScopedLookups ==
    /\ C3_LookupScoping
    /\ OrderSent =>
           payload.order.payments[1].paymentTypeId \in IdsOf(payment_types)

(* C3 as amended: the same, except that the paymentTypeId is an id of the  *)
(* payment-types lookup only when that lookup returned a non-empty list;   *)
(* when it returned nothing the paymentTypeId is whatever the operator     *)
(* typed.                                                                  *)

C3_IdsFromScopedLookupsUnlessManual ==
    /\ C3_LookupScoping
    /\ (OrderSent /\ payment_types # <<>>) =>
           payload.order.payments[1].paymentTypeId \in IdsOf(payment_types)

C3_Witness ==
    /\ OrderSent
    /\ payload.organizationId = "o2"
    /\ payload.terminalGroupId = "tgB"
    /\ payload.order.payments[1].paymentTypeId = "p2"

-----------------------------------------------------------------------------
(* C4: when the token call ends with a non-2xx status, a transport error,  *)
(* a malformed body or a body without a token field, main() holds no token *)
(* and returns at once: the token request is the only request of the run.  *)

AuthFails(r) == r.status # "ok" \/ "token" \notin DOMAIN r.body

C4_AuthFailureIsFatal ==
    (resp.ep = "access_token" /\ AuthFails(resp))
        => /\ token = None
           /\ pc = "aborted"
           /\ message = "no_token"
           /\ Len(log) = 1 /\ LastRequest = "access_token"

C4_Witness ==
    /\ resp.ep = "access_token" /\ resp.status = "ok" /\ resp.body = EmptyObj
    /\ pc = "aborted"

-----------------------------------------------------------------------------
(* C5: each endpoint is requested at most once in a run, no failure of a   *)
(* remote call escapes the function that made the call, and a failed       *)
(* order-create ends the run with the failure reported.                    *)

C5_NoRetry ==
    /\ \A ep \in Endpoints : Count(ep) <= 1
    /\ pc # "crashed"
    /\ outcome["order_create"] \in FailureStatus
           => (pc = "done" /\ message = "order_failed")

C5_Witness ==
    /\ outcome["order_create"] = "transport_error"
    /\ pc = "done" /\ message = "order_failed"
    /\ Count("order_create") = 1

-----------------------------------------------------------------------------
(* C6: every remote call has a timeout that ends it with an error, so      *)
(* every run comes to an end (submitted or aborted) once the operator      *)
(* answers the prompts, even when the service never answers a request.     *)

C6_EveryRunTerminates == <>Halted

-----------------------------------------------------------------------------
(* C7: for each catalog lookup, what the caller gets after a transport or  *)
(* HTTP failure differs from what it gets after a successful response      *)
(* with zero results.                                                      *)

\* what each lookup returns for a 2xx response listing nothing
ValueOfEmptySuccess(ep) ==
    CASE ep = "organizations" ->
             get_organizations(Ok([organizations |-> <<>>])).value
      [] ep = "terminal_groups" ->
             get_terminal_groups(<<>>, Ok([terminalGroups |-> <<>>,
                                          terminalGroupsInSleep |-> <<>>])).value
      [] ep = "available_restaurant_sections" ->
             get_available_restaurant_sections(Ok([restaurantSections |-> <<>>])).value
      [] ep = "payment_types" ->
             get_payment_types(Ok([paymentTypes |-> <<>>])).value

C7_FailureDistinctFromEmpty ==
    \A ep \in CatalogEndpoints :
        outcome[ep] \in FailureStatus => ResultOf(ep) # ValueOfEmptySuccess(ep)

-----------------------------------------------------------------------------
(* C8: after a transport or HTTP failure of any catalog lookup no          *)
(* order-create request is sent, and the operator is asked to type a       *)
(* payment-type id only after a successful payment-types lookup that       *)
(* listed nothing.                                                         *)

ManualEntry == pc = "pt_manual" \/ RunState = "ManualPaymentType"

C8_FailedLookupIsFatal ==
    /\ \A ep \in CatalogEndpoints : outcome[ep] \in FailureStatus => ~OrderSent
    /\ ManualEntry => (outcome["payment_types"] = "ok" /\ payment_types = <<>>)

-----------------------------------------------------------------------------
(* C9 as stated: whatever list S of organization ids get_terminal_groups   *)
(* is called with and whatever the service answers, every group returned   *)
(* has an organizationId in S.                                             *)

TGReturned == resp.ep = "terminal_groups"
TGScope == RequestOf("terminal_groups").scope
TGData == terminal_groups_data(resp.body)

C9_GroupsWithinScope ==
    TGReturned =>
        \A i \in 1..Len(terminal_groups) :
            terminal_groups[i].organizationId \in Range(TGScope)

(* C9 as amended: every group returned carries the organizationId of a     *)
(* response block that lists its id (the ids of S are not compared with    *)
(* it), so the groups returned have an organizationId in S whenever every  *)
(* block of the response has one.                                          *)

C9_GroupsCarryBlockOrganization ==
    TGReturned =>
        /\ \A i \in 1..Len(terminal_groups) :
               \E k \in 1..Len(TGData) :
                   /\ terminal_groups[i].organizationId = TGData[k].organizationId
                   /\ terminal_groups[i].id \in IdsOf(TGData[k].items)
        /\ (\A k \in 1..Len(TGData) : TGData[k].organizationId \in Range(TGScope))
               => \A i \in 1..Len(terminal_groups) :
                      terminal_groups[i].organizationId \in Range(TGScope)

C9_Witness ==
    /\ TGReturned
    /\ Len(TGData) = 2
    /\ TGData[1].organizationId # TGData[2].organizationId
    /\ \A k \in 1..2 : TGData[k].organizationId \in Range(TGScope)
    /\ Len(terminal_groups) = 2
    /\ terminal_groups[1].organizationId # terminal_groups[2].organizationId

-----------------------------------------------------------------------------
(* C10: for a 2xx response get_terminal_groups returns the items that have *)
(* an id, those of the 'terminalGroups' blocks first and those of the      *)
(* 'terminalGroupsInSleep' blocks after them, in block order and in item   *)
(* order within a block, each with its block's organizationId; nothing     *)
(* else is in the list.                                                    *)

\* the items of a block sequence in order, each with its block's organization
RECURSIVE ItemsInOrder(_)
ItemsInOrder(blocks) ==
    IF blocks = <<>> THEN <<>>
    ELSE [i \in 1..Len(Head(blocks).items) |->
              [item |-> Head(blocks).items[i],
               org |-> Head(blocks).organizationId]]
         \o ItemsInOrder(Tail(blocks))

\* the item has an id, and not an empty one
HasId(e) == "id" \in DOMAIN e.item /\ e.item.id # ""

AsGroup(e) == [id |-> e.item.id,
               name |-> IF "name" \in DOMAIN e.item THEN e.item.name ELSE "NoName",
               organizationId |-> e.org]

ExpectedGroups(data) ==
    LET active == IF "terminalGroups" \in DOMAIN data
                  THEN data.terminalGroups ELSE <<>>
        asleep == IF "terminalGroupsInSleep" \in DOMAIN data
                  THEN data.terminalGroupsInSleep ELSE <<>>
        kept == SelectSeq(ItemsInOrder(active) \o ItemsInOrder(asleep), HasId)
    IN  [i \in 1..Len(kept) |-> AsGroup(kept[i])]

C10_MergedInOrder ==
    (TGReturned /\ resp.status = "ok")
        => terminal_groups = ExpectedGroups(resp.body)

C10_Witness ==
    /\ TGReturned /\ resp.status = "ok"
    /\ DOMAIN resp.body = {"terminalGroups", "terminalGroupsInSleep"}
    /\ Len(resp.body.terminalGroups) = 1
    /\ Len(resp.body.terminalGroupsInSleep) = 1
    /\ resp.body.terminalGroups[1].items = <<[id |-> "tgB"]>>
    /\ resp.body.terminalGroupsInSleep[1].items = <<[id |-> "tgA", name |-> "Bar"]>>
    /\ resp.body.terminalGroups[1].organizationId
           # resp.body.terminalGroupsInSleep[1].organizationId
    /\ Len(terminal_groups) = 2
    /\ terminal_groups[1].id = "tgB" /\ terminal_groups[1].name = "NoName"
    /\ terminal_groups[2].id = "tgA"

-----------------------------------------------------------------------------
(* The submitted order document *)

Doc == payload.order
DocItem == Doc.items[1]
DocPayment == Doc.payments[1]

\* C11: no order is submitted with a payment sum < 0, an item amount <= 0 or
\* a price < 0: whatever price, quantity and sum the operator types, a
\* submitted document has sum >= 0, amount > 0 and price >= 0
C11_NoNegativeOrZeroAmounts ==
    OrderSent =>
        /\ DocPayment.sum >= 0
        /\ DocItem.amount > 0
        /\ DocItem.price >= 0

\* price x quantity, for decimals kept in hundredths
IsProduct(sum, price, amount) == sum * 100 = price * amount

\* C12: the submitted payment sum is price x quantity when the answer to the
\* sum prompt is blank or is not a number, and the number typed otherwise
C12_SumDefaultsToPriceTimesQuantity ==
    OrderSent =>
        IF IsBlankText(typed.sum) \/ ~PyFloat(typed.sum).ok
        THEN IsProduct(DocPayment.sum, DocItem.price, DocItem.amount)
        ELSE DocPayment.sum = PyFloat(typed.sum).val

\* both cases of C12 are submitted: a sum that is not a number next to a
\* price of 10 and a quantity of 2.5
C12_Witness ==
    /\ OrderSent
    /\ typed.sum = "abc"
    /\ DocItem.price = 1000 /\ DocItem.amount = 250
    /\ DocPayment.sum = 2500

\* C13: the submitted customer name is "Guest" when the name typed is blank
\* and the name typed otherwise, and the document has no phone field when
\* the phone typed is blank
C13_GuestNameAndPhoneOmitted ==
    OrderSent =>
        /\ Doc.customer.name =
               IF IsBlankText(typed.name) THEN "Guest" ELSE typed.name
        /\ IsBlankText(typed.phone) => "phone" \notin DOMAIN Doc


-----------------------------------------------------------------------------
\* the tables of all sections, sections in service order and tables in
\* their order within each section
RECURSIVE FlattenedTables(_)
FlattenedTables(secs) ==
    IF secs = <<>> THEN <<>>
    ELSE Get(Head(secs), "tables", <<>>) \o FlattenedTables(Tail(secs))

\* the sections lookup succeeded with sections that hold no table at all
SectionsWithoutTables ==
    /\ outcome["available_restaurant_sections"] = "ok"
    /\ sections # <<>>
    /\ FlattenedTables(sections) = <<>>

\* C14: when the sections lookup succeeds with one or more sections that
\* together hold no table, the run aborts with the "no tables" outcome, which
\* a failed sections lookup never produces; no table is asked for and neither
\* the payment-types nor the order-create request is issued
C14_NoTablesAborts ==
    /\ SectionsWithoutTables =>
          /\ pc = "aborted"
          /\ message = "no_tables"
          /\ table_index = 0 /\ table_id = Unbound
          /\ LastRequest = "available_restaurant_sections"
          /\ ~Requested("payment_types") /\ ~OrderSent
    /\ outcome["available_restaurant_sections"] \in FailureStatus =>
          message # "no_tables"

\* the scenario of the spec: one section "Hall" with an empty table list
C14_Witness ==
    /\ SectionsWithoutTables
    /\ sections = <<[name |-> "Hall", tables |-> <<>>]>>
    /\ message = "no_tables"


-----------------------------------------------------------------------------
\* the order in which main() makes its calls
CallOrder ==
    << "access_token", "organizations", "terminal_groups",
       "available_restaurant_sections", "payment_types", "order_create" >>

\* the requests issued so far that have neither a response nor an error yet
Unanswered == {i \in 1..Len(log) : outcome[log[i].ep] = "none"}

C15_OneAtATime ==
    /\ Len(log) <= Len(CallOrder)
    /\ \A i \in 1..Len(log) : log[i].ep = CallOrder[i]
    /\ Cardinality(Unanswered) <= 1
    /\ Unanswered \subseteq {Len(log)}
    /\ Requested("payment_types") => table_id # Unbound

\* C15: the requests are issued one at a time in the order token,
\* organizations, terminal groups, sections, payment types, order-create; a
\* request is issued only when every earlier one has got a response or an
\* error, so no two are in flight together, and the payment-types request
\* never precedes the table choice
C15_StrictlySequentialCalls ==
    /\ [](C15_OneAtATime)
    /\ [][log' # log => /\ Unanswered = {}
                        /\ Len(log') = Len(log) + 1
                        /\ Unanswered' = {Len(log')}]_vars

\* a run that issued all six requests
C15_Witness ==
    /\ Len(log) = Len(CallOrder)
    /\ Unanswered = {}
    /\ pc = "done"


-----------------------------------------------------------------------------
\* the order-create call has ended, one way or the other
OrderAnswered == outcome["order_create"] # "none"

\* C16: the run ends reporting the order as created if and only if the
\* order-create endpoint answered 2xx with a parseable body, whatever the
\* body holds, and reporting failure exactly on a non-2xx answer, an
\* unparseable body or a transport error
C16_CreatedIffParseable2xx ==
    OrderAnswered =>
        /\ pc = "done"
        /\ message \in {"order_created", "order_failed"}
        /\ message = "order_created" <=> outcome["order_create"] = "ok"
        /\ message = "order_failed" <=> outcome["order_create"] \in FailureStatus


-----------------------------------------------------------------------------
\* everything an order needs has been obtained in this run
DetailsObtained ==
    /\ Truthy(token)
    /\ organization_id # Unbound /\ outcome["organizations"] = "ok"
    /\ terminal_group_id # Unbound /\ outcome["terminal_groups"] = "ok"
    /\ table_id # Unbound
    /\ outcome["available_restaurant_sections"] = "ok"
    /\ payment_type_id # Unbound /\ outcome["payment_types"] # "none"
    /\ product_id # Unbound /\ ~IsBlankText(product_id)
    /\ product_price # NoNum /\ product_quantity # NoNum
    /\ payment_sum # NoNum

\* the document sent is made of the values obtained
DocOfDetails ==
    /\ payload.organizationId = organization_id
    /\ payload.terminalGroupId = terminal_group_id
    /\ Doc.tableIds = <<table_id>>
    /\ DocPayment.paymentTypeId = payment_type_id
    /\ DocItem.productId = product_id
    /\ DocItem.price = product_price /\ DocItem.amount = product_quantity

C17_SentOnlyWithDetails ==
    /\ OrderSent => DetailsObtained /\ DocOfDetails
    /\ pc = "aborted" => ~OrderSent /\ payload = NoPayload
    /\ ~OrderSent => payload = NoPayload

\* C17: the order-create request is sent only in the DetailsCollected state,
\* with the token, organization, terminal group, table, payment-type id, a
\* non-blank productId and parsed price and quantity all obtained earlier in
\* the run; a run that aborts earlier has sent no order-create request
C17_OrderOnlyWhenDetailsCollected ==
    /\ [](C17_SentOnlyWithDetails)
    /\ [][OrderSent' /\ ~OrderSent =>
              /\ RunState = "DetailsCollected"
              /\ DetailsObtained
              /\ UNCHANGED <<token, orgVars, tgVars, tableVars, payVars, detailVars>>]_vars

\* an order sent with a payment-type id typed by hand
C17_Witness ==
    /\ OrderSent
    /\ DetailsObtained
    /\ payment_types = <<>>
    /\ DocPayment.paymentTypeId = "pt-manual"
    /\ DocItem.productId = "prod-1"


-----------------------------------------------------------------------------
\* the id of the k-th table of the flattened list
KthTableId(k) == Get(FlattenedTables(sections)[k], "id", None)

\* once numbered, the tables are numbered 1..n in the order of the
\* flattened list
TablesNumbered ==
    /\ DOMAIN table_dict = 1..Len(FlattenedTables(sections))
    /\ \A k \in DOMAIN table_dict : table_dict[k] = KthTableId(k)

\* the table chosen is the k-th of the flattened list, k the number typed
ChosenIsKth ==
    /\ table_index \in 1..Len(FlattenedTables(sections))
    /\ table_id = KthTableId(table_index)
    /\ table_id \in TableIdsOf(sections)

\* C18: the submitted tableIds holds exactly one element, the id of the k-th
\* table of the list made by walking the sections in service order and the
\* tables in order within each section, k being the operator's choice; the
\* numbering 1..n is contiguous, so every accepted choice is a table the
\* sections lookup of this run returned
C18_TableIsKthOfFlattenedList ==
    /\ outcome["available_restaurant_sections"] = "ok" /\ sections # <<>>
           => TablesNumbered
    /\ table_id # Unbound => ChosenIsKth
    /\ OrderSent =>
          /\ Len(Doc.tableIds) = 1
          /\ Doc.tableIds[1] = KthTableId(table_index)
          /\ Doc.tableIds[1] \in TableIdsOf(sections)

\* the second table, the first of the second section, is submitted
C18_Witness ==
    /\ OrderSent
    /\ Len(sections) = 2
    /\ Len(sections[1].tables) = 1 /\ Len(sections[2].tables) = 1
    /\ table_index = 2
    /\ Doc.tableIds = <<sections[2].tables[1].id>>


-----------------------------------------------------------------------------
\* the kind the payment-types lookup reported for the submitted payment type
ReportedKinds ==
    {payment_types[i].paymentTypeKind :
         i \in {j \in 1..Len(payment_types) :
                    payment_types[j].id = DocPayment.paymentTypeId}}

\* C19: the single payment of every submitted order has paymentTypeKind
\* "Cash", whichever payment type was selected or typed by hand and whatever
\* kind the payment-types lookup reported for it, and its flags
\* isProcessedExternally, isFiscalizedExternally and isPrepay are false
C19_PaymentKindAlwaysCash ==
    OrderSent =>
        /\ Len(Doc.payments) = 1
        /\ DocPayment.paymentTypeKind = "Cash"
        /\ DocPayment.isProcessedExternally = FALSE
        /\ DocPayment.isFiscalizedExternally = FALSE
        /\ DocPayment.isPrepay = FALSE

\* an order paid with a type the lookup reported as a card payment
C19_Witness ==
    /\ OrderSent
    /\ DocPayment.paymentTypeId = "p1"
    /\ ReportedKinds = {"Card"}
    /\ DocPayment.paymentTypeKind = "Cash"


====
